---- MODULE Spec2Model ----
(***************************************************************************)
(* The SMTP backend of server/smtp_server.go: sessions sharing one backend *)
(* with its success/failure counters, driven by the SMTP engine through    *)
(* Mail, Rcpt, Data, Reset, Logout, and read through Counts.               *)
(*                                                                         *)
(* Strings are sequences of one-character strings; the empty string is     *)
(* << >>.  A callback is a sequence of steps of the goroutine running it;  *)
(* a step ends at each access to shared state (a mutex, a counter, the     *)
(* session topic, the publisher).                                          *)
(***************************************************************************)
EXTENDS Integers, Sequences, FiniteSets, TLC

\* ------------------------------------------------------------- bounds

\* Goroutines of the SMTP engine that call into the backend.
NumThreads == 3
\* Sessions returned by Login / AnonymousLogin.
NumSessions == 2
\* Callbacks started in one run.
MaxCalls == 3
\* conf.MessageLimit of the configuration.
MessageLimit == 2
\* Longest topic topicRegex accepts in the model.
MaxTopicLen == 2

Threads == 1..NumThreads
Sessions == 1..NumSessions

\* The session goroutine t serves.  The engine runs the callbacks of a
\* session one after the other on the goroutine of its connection (goroutine
\* s for session s); a further goroutine of a session runs Reset out of
\* band, at any time.
SessOf(t) == ((t - 1) % NumSessions) + 1
Connection(t) == t <= NumSessions

\* ------------------------------------------------------ configuration

\* conf.SMTPServerDomain
SMTPServerDomain == <<"d", "o">>
\* conf.SMTPServerAddrPrefix
SMTPServerAddrPrefix == <<"p", "-">>

\* ------------------------------------------------------------- strings

HasSuffix(s, suf) ==
    /\ Len(s) >= Len(suf)
    /\ SubSeq(s, Len(s) - Len(suf) + 1, Len(s)) = suf

TrimSuffix(s, suf) ==
    IF HasSuffix(s, suf) THEN SubSeq(s, 1, Len(s) - Len(suf)) ELSE s

HasPrefix(s, pre) ==
    /\ Len(s) >= Len(pre)
    /\ SubSeq(s, 1, Len(pre)) = pre

TrimPrefix(s, pre) ==
    IF HasPrefix(s, pre) THEN SubSeq(s, Len(pre) + 1, Len(s)) ELSE s

WhiteSpace == {" ", "\n"}

RECURSIVE TrimLeft(_)
TrimLeft(s) ==
    IF s # << >> /\ Head(s) \in WhiteSpace THEN TrimLeft(Tail(s)) ELSE s

RECURSIVE TrimRight(_)
TrimRight(s) ==
    IF s # << >> /\ s[Len(s)] \in WhiteSpace
    THEN TrimRight(SubSeq(s, 1, Len(s) - 1))
    ELSE s

TrimSpace(s) == TrimRight(TrimLeft(s))

\* -------------------------------------------------------------- errors

Nil == "nil"
errInvalidDomain == "invalid domain"
errInvalidAddress == "invalid address"
errInvalidTopic == "invalid topic"
errTooManyRecipients == "too many recipients"
errUnsupportedContentType == "unsupported content type"
\* Errors of the libraries and of the publisher.
errParseAddress == "mail: address parse error"
errRead == "read error"
errReadMessage == "mail: malformed message"
errMediaType == "mime: no media type"
errEOF == "EOF"
errDecode == "mime: unhandled charset"
errPublish == "publish error"

\* ------------------------------------------------------------ resolver

TopicChars == {"a", "b", "-", "_"}

\* topicRegex.MatchString
TopicRegexMatch(s) ==
    /\ Len(s) >= 1
    /\ Len(s) <= MaxTopicLen
    /\ \A i \in 1..Len(s) : s[i] \in TopicChars

\* The body of Rcpt's closure up to the write of the topic: the error it
\* returns, and the topic it is about to store.  rcpt is the outcome of
\* mail.ParseAddressList(to): ok and the addresses of the list.
\* Mutant: the topic is not matched against topicRegex.
ResolveUnchecked(rcpt) ==
    LET fail(e) == [err |-> e, topic |-> << >>] IN
    IF ~rcpt.ok THEN fail(errParseAddress)
    ELSE IF Len(rcpt.addrs) # 1 THEN fail(errTooManyRecipients)
    ELSE LET to1 == rcpt.addrs[1]
             at == <<"@">> \o SMTPServerDomain
         IN  IF ~HasSuffix(to1, at) THEN fail(errInvalidDomain)
             ELSE LET to2 == TrimSuffix(to1, at)
                      to3 == IF SMTPServerAddrPrefix # << >>
                             THEN TrimPrefix(to2, SMTPServerAddrPrefix)
                             ELSE to2
                  IN  IF /\ SMTPServerAddrPrefix # << >>
                         /\ ~HasPrefix(to2, SMTPServerAddrPrefix)
                      THEN fail(errInvalidAddress)
                      ELSE [err |-> Nil, topic |-> to3]

\* Mutant: the address prefix is trimmed without being required.
ResolveAnyPrefix(rcpt) ==
    LET fail(e) == [err |-> e, topic |-> << >>] IN
    IF ~rcpt.ok THEN fail(errParseAddress)
    ELSE IF Len(rcpt.addrs) # 1 THEN fail(errTooManyRecipients)
    ELSE LET to1 == rcpt.addrs[1]
             at == <<"@">> \o SMTPServerDomain
         IN  IF ~HasSuffix(to1, at) THEN fail(errInvalidDomain)
             ELSE LET to2 == TrimSuffix(to1, at)
                      to3 == IF SMTPServerAddrPrefix # << >>
                             THEN TrimPrefix(to2, SMTPServerAddrPrefix)
                             ELSE to2
                  IN  IF ~TopicRegexMatch(to3) THEN fail(errInvalidTopic)
                      ELSE [err |-> Nil, topic |-> to3]

Resolve(rcpt) ==
    LET fail(e) == [err |-> e, topic |-> << >>] IN
    IF ~rcpt.ok THEN fail(errParseAddress)
    ELSE IF Len(rcpt.addrs) # 1 THEN fail(errTooManyRecipients)
    ELSE LET to1 == rcpt.addrs[1]
             at == <<"@">> \o SMTPServerDomain
         IN  IF ~HasSuffix(to1, at) THEN fail(errInvalidDomain)
             ELSE LET to2 == TrimSuffix(to1, at)
                      to3 == IF SMTPServerAddrPrefix # << >>
                             THEN TrimPrefix(to2, SMTPServerAddrPrefix)
                             ELSE to2
                  IN  IF /\ SMTPServerAddrPrefix # << >>
                         /\ ~HasPrefix(to2, SMTPServerAddrPrefix)
                      THEN fail(errInvalidAddress)
                      ELSE IF ~TopicRegexMatch(to3) THEN fail(errInvalidTopic)
                      ELSE [err |-> Nil, topic |-> to3]

\* ----------------------------------------------------------- extractor

\* mime.ParseMediaType of a Content-Type header value: the media type in
\* lower case without its parameters, or an error.
ParseMediaType(h) ==
    CASE h = "text/plain" -> [err |-> Nil, type |-> "text/plain"]
      [] h = "Text/Plain; charset=utf-8" -> [err |-> Nil, type |-> "text/plain"]
      [] h = "text/html" -> [err |-> Nil, type |-> "text/html"]
      [] h = "multipart/mixed; boundary=b" -> [err |-> Nil, type |-> "multipart/mixed"]
      [] OTHER -> [err |-> errMediaType, type |-> ""]

\* strings.HasPrefix(contentType, "multipart/")
IsMultipart(contentType) == contentType \in {"multipart/mixed"}

\* The loop of readMailBody over the parts mr.NextPart() yields; after the
\* last part NextPart returns io.EOF.
\* Mutant: only the first part is looked at.
ScanPartsFirstOnly(parts) ==
    IF parts = << >> THEN [err |-> errEOF, body |-> << >>]
    ELSE LET part == Head(parts)
             pct == ParseMediaType(part.ctype)
         IN  IF pct.err # Nil THEN [err |-> pct.err, body |-> << >>]
             ELSE IF pct.type # "text/plain"
                  THEN [err |-> errUnsupportedContentType, body |-> << >>]
             ELSE IF ~part.read THEN [err |-> errRead, body |-> << >>]
             ELSE [err |-> Nil, body |-> part.body]

RECURSIVE ScanParts(_)
ScanParts(parts) ==
    IF parts = << >> THEN [err |-> errEOF, body |-> << >>]
    ELSE LET part == Head(parts)
             pct == ParseMediaType(part.ctype)
         IN  IF pct.err # Nil THEN [err |-> pct.err, body |-> << >>]
             ELSE IF pct.type # "text/plain" THEN ScanParts(Tail(parts))
             ELSE IF ~part.read THEN [err |-> errRead, body |-> << >>]
             ELSE [err |-> Nil, body |-> part.body]

readMailBody(msg) ==
    LET ct == ParseMediaType(msg.ctype) IN
    IF ct.err # Nil THEN [err |-> ct.err, body |-> << >>]
    ELSE IF ct.type = "text/plain" THEN [err |-> Nil, body |-> msg.body]
    ELSE IF IsMultipart(ct.type) THEN ScanParts(msg.parts)
    ELSE [err |-> errUnsupportedContentType, body |-> << >>]

\* Data's closure up to the call of readMailBody: io.ReadAll,
\* mail.ReadMessage, readMailBody.
Extract(msg) ==
    IF ~msg.read THEN [err |-> errRead, body |-> << >>]
    ELSE IF ~msg.parse THEN [err |-> errReadMessage, body |-> << >>]
    ELSE readMailBody(msg)

\* ----------------------------------------------------------- assembler

\* An RFC 2047 encoded word of a header, as mime.WordDecoder reads it.
EncodedWords ==
    {"=?utf-8?q?a?=", "=?utf-8?q?_?=", "=?utf-8?q??=", "=?utf-8?q?abc?=",
     "=?x-unknown?q?a?="}

DecodeWord(w) ==
    CASE w = "=?utf-8?q?a?=" -> [err |-> Nil, text |-> <<"a">>]
      [] w = "=?utf-8?q?_?=" -> [err |-> Nil, text |-> <<" ">>]
      [] w = "=?utf-8?q??=" -> [err |-> Nil, text |-> << >>]
      [] w = "=?utf-8?q?abc?=" -> [err |-> Nil, text |-> <<"a", "b", "c">>]
      [] w = "=?x-unknown?q?a?=" -> [err |-> errDecode, text |-> << >>]
      [] OTHER -> [err |-> Nil, text |-> <<w>>]

\* mime.WordDecoder.DecodeHeader
RECURSIVE DecodeHeader(_)
DecodeHeader(h) ==
    IF h = << >> THEN [err |-> Nil, text |-> << >>]
    ELSE LET w == DecodeWord(Head(h))
             rest == DecodeHeader(Tail(h))
         IN  IF w.err # Nil THEN [err |-> w.err, text |-> << >>]
             ELSE IF rest.err # Nil THEN rest
             ELSE [err |-> Nil, text |-> w.text \o rest.text]

\* newDefaultMessage(topic, msg)
newDefaultMessage(tp, msg) == [topic |-> tp, title |-> << >>, message |-> msg]

\* Mutant: the body is trimmed and not cut.
TrimOnly(body) == TrimSpace(body)

\* Mutant: the body is cut to the limit before it is trimmed.
TruncateThenTrim(body) ==
    TrimSpace(IF Len(body) > MessageLimit THEN SubSeq(body, 1, MessageLimit) ELSE body)

\* body = strings.TrimSpace(body); if len(body) > conf.MessageLimit { ... }
TrimAndTruncate(body) ==
    LET trimmed == TrimSpace(body) IN
    IF Len(trimmed) > MessageLimit THEN SubSeq(trimmed, 1, MessageLimit) ELSE trimmed

\* Mutant: the title is copied to the message and not cleared.
FlipKeepsTitle(msg) ==
    IF msg.title # << >> /\ msg.message = << >>
    THEN [msg EXCEPT !.message = msg.title]
    ELSE msg

\* if m.Title != "" && m.Message == "" { flip }
Flip(msg) ==
    IF msg.title # << >> /\ msg.message = << >>
    THEN [msg EXCEPT !.message = msg.title, !.title = << >>]
    ELSE msg

\* Data's closure from the trimming of the body to the message it hands to
\* the publisher: tp is the value read from s.topic.
Assemble(tp, body, subjectHeader) ==
    LET m0 == newDefaultMessage(tp, TrimAndTruncate(body))
        subject == TrimSpace(subjectHeader)
        dec == DecodeHeader(subject)
    IN  IF subject # << >> /\ dec.err # Nil THEN [err |-> dec.err, m |-> m0]
        ELSE IF subject # << >> THEN [err |-> Nil, m |-> Flip([m0 EXCEPT !.title = dec.text])]
        ELSE [err |-> Nil, m |-> Flip(m0)]

\* --------------------------------------------------------------- state

VARIABLES
    topic,      \* smtpSession.topic of each session
    smu,        \* smtpSession.mu: the goroutine holding it, 0 when unlocked
    bmu,        \* smtpBackend.mu: the goroutine holding it, 0 when unlocked
    success,    \* smtpBackend.success
    failure,    \* smtpBackend.failure
    th,         \* each goroutine's callback in progress
    hist,       \* history of each session's topic (see NoHist)
    calls,      \* history: callbacks started
    nOk,        \* history: Data calls that returned nil
    nErr        \* history: Rcpt and Data calls that returned an error

vars == <<topic, smu, bmu, success, failure, th, hist, calls, nOk, nErr>>

NoRcpt == [ok |-> FALSE, addrs |-> << >>]
NoMail == [read |-> FALSE, parse |-> FALSE, ctype |-> "", body |-> << >>,
           parts |-> << >>, subject |-> << >>]
NoCounts == <<-1, -1>>

\* The history of a session's topic:
\*   by      the callback that wrote it last ("Login": none since Login)
\*   val     the topic that Rcpt resolved, when by = "Rcpt"
\*   old     the topic that the last write overwrote
\*   used    a Data call has read the topic that Rcpt wrote
\*   failed  a Rcpt or Data of the session has returned an error
\*   afterFail  the last write followed a Rcpt or Data that returned an error
\*   pub     the calls of the publisher for the session that have returned
\*   pubOk   those that returned nil
NoHist ==
    [by |-> "Login", val |-> << >>, old |-> << >>, used |-> FALSE,
     failed |-> FALSE, afterFail |-> FALSE, pub |-> 0, pubOk |-> 0]

\* The history of the topic as Data read it (by, val, used), with by =
\* "race" when a write was in progress.
NotSeen == [by |-> "none", val |-> << >>, used |-> FALSE]

\* A goroutine that runs no callback.
\*   pc    where the callback stands ("idle": none in progress)
\*   op    the callback; to, mail its argument
\*   err   the error of the closure given to withFailCount
\*   m     the message Data built (a sequence of at most one)
\*   tmp   the counter value loaded by a ++
\*   ret   the value of the return statement ("none" before it)
\*   cnt   the pair Counts returns
\* and, as history of the call: sent (messages handed to the publisher),
\* dS and dF (increments made to success and failure), seen (the history of
\* the topic when Data read it), snap ((nOk, nErr) when Counts read the
\* counters with no Rcpt or Data in progress).
Fresh ==
    [pc |-> "idle", op |-> "none", to |-> NoRcpt, mail |-> NoMail,
     err |-> Nil, m |-> << >>, tmp |-> 0, ret |-> "none", cnt |-> NoCounts,
     sent |-> 0, dS |-> 0, dF |-> 0, seen |-> NotSeen, snap |-> NoCounts]

Init ==
    /\ topic = [s \in Sessions |-> << >>]
    /\ smu = [s \in Sessions |-> 0]
    /\ bmu = 0
    /\ success = 0
    /\ failure = 0
    /\ th = [t \in Threads |-> Fresh]
    /\ hist = [s \in Sessions |-> NoHist]
    /\ calls = 0
    /\ nOk = 0
    /\ nErr = 0

\* The engine may start a callback on goroutine t; out of band, Reset.
CanCall(t) == th[t].pc = "idle" /\ calls < MaxCalls /\ Connection(t)
CanReset(t) == th[t].pc = "idle" /\ calls < MaxCalls

\* Mutant: the topic is written without s.mu.
SessionNeverLocked(s) == TRUE

\* sync.Mutex.Lock returns once the mutex is unlocked.
SessionUnlocked(s) == smu[s] = 0

\* Mutant: the counters are updated without s.backend.mu.
BackendNeverLocked == TRUE

BackendUnlocked == bmu = 0

\* A Rcpt or Data call is in progress.
InFlight == \E t \in Threads : th[t].op \in {"Rcpt", "Data"}

\* ------------------------------------------------- Mail, AuthPlain, Logout

\* Lines 61, 65, 148: return nil
ReturnNil(t, name) ==
    /\ CanCall(t)
    /\ th' = [th EXCEPT ![t] = [Fresh EXCEPT !.op = name, !.ret = Nil, !.pc = "n_ret"]]
    /\ calls' = calls + 1
    /\ UNCHANGED <<topic, smu, bmu, success, failure, hist, nOk, nErr>>

AuthPlain(t) == ReturnNil(t, "AuthPlain")

Mail(t) == ReturnNil(t, "Mail")

\* Mutant: Logout clears the topic as Reset does.
LogoutClears(t) ==
    /\ CanCall(t)
    /\ topic' = [topic EXCEPT ![SessOf(t)] = << >>]
    /\ th' = [th EXCEPT ![t] = [Fresh EXCEPT !.op = "Logout", !.ret = Nil, !.pc = "n_ret"]]
    /\ calls' = calls + 1
    /\ UNCHANGED <<smu, bmu, success, failure, hist, nOk, nErr>>

Logout(t) == ReturnNil(t, "Logout")

\* The callback is back in the engine.
Return(t) ==
    /\ th[t].pc = "n_ret"
    /\ th' = [th EXCEPT ![t] = Fresh]
    /\ UNCHANGED <<topic, smu, bmu, success, failure, hist, calls, nOk, nErr>>

\* -------------------------------------------------------------------- Rcpt

\* Mutant: a recipient that does not resolve clears the topic.
RcptCallClears(t, rcpts) ==
    /\ CanCall(t)
    /\ \E r \in rcpts :
         /\ th' = [th EXCEPT ![t] =
                     [Fresh EXCEPT !.op = "Rcpt", !.to = r,
                                   !.err = Resolve(r).err,
                                   !.pc = IF Resolve(r).err = Nil THEN "r_lock" ELSE "w_lock"]]
         /\ topic' = IF Resolve(r).err = Nil THEN topic
                     ELSE [topic EXCEPT ![SessOf(t)] = << >>]
    /\ calls' = calls + 1
    /\ UNCHANGED <<smu, bmu, success, failure, hist, nOk, nErr>>

\* Lines 69-90: the closure resolves the recipient; an error goes straight
\* to withFailCount's count.
RcptCall(t, rcpts) ==
    /\ CanCall(t)
    /\ \E r \in rcpts :
         th' = [th EXCEPT ![t] =
                  [Fresh EXCEPT !.op = "Rcpt", !.to = r,
                                !.err = Resolve(r).err,
                                !.pc = IF Resolve(r).err = Nil THEN "r_lock" ELSE "w_lock"]]
    /\ calls' = calls + 1
    /\ UNCHANGED <<topic, smu, bmu, success, failure, hist, nOk, nErr>>

\* Line 91: s.mu.Lock()
RcptLock(t) ==
    /\ th[t].pc = "r_lock"
    /\ SessionUnlocked(SessOf(t))
    /\ smu' = [smu EXCEPT ![SessOf(t)] = t]
    /\ th' = [th EXCEPT ![t].pc = "r_write"]
    /\ UNCHANGED <<topic, bmu, success, failure, hist, calls, nOk, nErr>>

\* Mutant: once a call of the session has failed, Rcpt no longer stores the
\* topic.
RcptWriteSkipsAfterFail(t) ==
    /\ th[t].pc = "r_write"
    /\ topic' = IF hist[SessOf(t)].failed THEN topic
                ELSE [topic EXCEPT ![SessOf(t)] = Resolve(th[t].to).topic]
    /\ smu' = [smu EXCEPT ![SessOf(t)] = 0]
    /\ hist' = [hist EXCEPT ![SessOf(t)] =
                  [@ EXCEPT !.by = "Rcpt", !.val = Resolve(th[t].to).topic,
                            !.old = topic[SessOf(t)], !.used = FALSE,
                            !.afterFail = hist[SessOf(t)].failed]]
    /\ th' = [th EXCEPT ![t].pc = "w_lock"]
    /\ UNCHANGED <<bmu, success, failure, calls, nOk, nErr>>

\* Mutant: Rcpt stores the topic only when the session has none.
RcptWriteFirstWins(t) ==
    /\ th[t].pc = "r_write"
    /\ topic' = IF topic[SessOf(t)] # << >> THEN topic
                ELSE [topic EXCEPT ![SessOf(t)] = Resolve(th[t].to).topic]
    /\ smu' = [smu EXCEPT ![SessOf(t)] = 0]
    /\ hist' = [hist EXCEPT ![SessOf(t)] =
                  [@ EXCEPT !.by = "Rcpt", !.val = Resolve(th[t].to).topic,
                            !.old = topic[SessOf(t)], !.used = FALSE,
                            !.afterFail = hist[SessOf(t)].failed]]
    /\ th' = [th EXCEPT ![t].pc = "w_lock"]
    /\ UNCHANGED <<bmu, success, failure, calls, nOk, nErr>>

\* Lines 92-94: s.topic = to; s.mu.Unlock(); return nil
RcptWrite(t) ==
    /\ th[t].pc = "r_write"
    /\ topic' = [topic EXCEPT ![SessOf(t)] = Resolve(th[t].to).topic]
    /\ smu' = [smu EXCEPT ![SessOf(t)] = 0]
    /\ hist' = [hist EXCEPT ![SessOf(t)] =
                  [@ EXCEPT !.by = "Rcpt", !.val = Resolve(th[t].to).topic,
                            !.old = topic[SessOf(t)], !.used = FALSE,
                            !.afterFail = hist[SessOf(t)].failed]]
    /\ th' = [th EXCEPT ![t].pc = "w_lock"]
    /\ UNCHANGED <<bmu, success, failure, calls, nOk, nErr>>

\* ------------------------------------------------------------------- Reset

ResetCall(t) ==
    /\ CanReset(t)
    /\ th' = [th EXCEPT ![t] = [Fresh EXCEPT !.op = "Reset", !.pc = "rs_lock"]]
    /\ calls' = calls + 1
    /\ UNCHANGED <<topic, smu, bmu, success, failure, hist, nOk, nErr>>

\* Line 142: s.mu.Lock()
ResetLock(t) ==
    /\ th[t].pc = "rs_lock"
    /\ SessionUnlocked(SessOf(t))
    /\ smu' = [smu EXCEPT ![SessOf(t)] = t]
    /\ th' = [th EXCEPT ![t].pc = "rs_write"]
    /\ UNCHANGED <<topic, bmu, success, failure, hist, calls, nOk, nErr>>

\* Mutant: Reset takes and releases the lock and leaves the topic.
ResetWriteKeeps(t) ==
    /\ th[t].pc = "rs_write"
    /\ smu' = [smu EXCEPT ![SessOf(t)] = 0]
    /\ hist' = [hist EXCEPT ![SessOf(t)] =
                  [@ EXCEPT !.by = "Reset", !.val = << >>,
                            !.old = topic[SessOf(t)], !.used = FALSE,
                            !.afterFail = hist[SessOf(t)].failed]]
    /\ th' = [th EXCEPT ![t] = Fresh]
    /\ UNCHANGED <<topic, bmu, success, failure, calls, nOk, nErr>>

\* Lines 143-145: s.topic = ""; s.mu.Unlock()
ResetWrite(t) ==
    /\ th[t].pc = "rs_write"
    /\ topic' = [topic EXCEPT ![SessOf(t)] = << >>]
    /\ smu' = [smu EXCEPT ![SessOf(t)] = 0]
    /\ hist' = [hist EXCEPT ![SessOf(t)] =
                  [@ EXCEPT !.by = "Reset", !.val = << >>,
                            !.old = topic[SessOf(t)], !.used = FALSE,
                            !.afterFail = hist[SessOf(t)].failed]]
    /\ th' = [th EXCEPT ![t] = Fresh]
    /\ UNCHANGED <<bmu, success, failure, calls, nOk, nErr>>

\* -------------------------------------------------------------------- Data

\* A value that is neither the old nor the new topic: what a read of the
\* string may give while another goroutine writes it.
TornTopic == <<"?">>

\* The goroutines writing the topic of session s (between s.mu.Lock and
\* s.mu.Unlock of Rcpt or Reset).
Writers(s) == {u \in Threads : SessOf(u) = s /\ th[u].pc \in {"r_write", "rs_write"}}

\* The value the writer u is storing.
Storing(u) == IF th[u].pc = "r_write" THEN Resolve(th[u].to).topic ELSE << >>

\* Line 117 reads s.topic without s.mu: with a write in progress the read
\* is a data race, and gives the old value, the new one, or neither.
TopicReads(s) ==
    IF Writers(s) = {} THEN {topic[s]}
    ELSE {topic[s], TornTopic} \cup {Storing(u) : u \in Writers(s)}

\* Lines 100-112: io.ReadAll, mail.ReadMessage, readMailBody.
DataCall(t, mails) ==
    /\ CanCall(t)
    /\ \E ml \in mails :
         th' = [th EXCEPT ![t] =
                  [Fresh EXCEPT !.op = "Data", !.mail = ml,
                                !.err = Extract(ml).err,
                                !.pc = IF Extract(ml).err = Nil THEN "d_topic" ELSE "w_lock"]]
    /\ calls' = calls + 1
    /\ UNCHANGED <<topic, smu, bmu, success, failure, hist, nOk, nErr>>

\* Lines 113-130: the message is built from the session's topic, the body
\* and the Subject header.
DataTopic(t) ==
    /\ th[t].pc = "d_topic"
    /\ \E tp \in TopicReads(SessOf(t)) :
         LET a == Assemble(tp, Extract(th[t].mail).body, th[t].mail.subject) IN
         th' = [th EXCEPT ![t].m = <<a.m>>,
                          ![t].err = a.err,
                          ![t].seen = IF Writers(SessOf(t)) = {}
                                      THEN [by |-> hist[SessOf(t)].by,
                                            val |-> hist[SessOf(t)].val,
                                            used |-> hist[SessOf(t)].used]
                                      ELSE [by |-> "race", val |-> << >>, used |-> FALSE],
                          ![t].pc = IF a.err = Nil THEN "d_pub" ELSE "w_lock"]
    /\ hist' = [hist EXCEPT ![SessOf(t)].used = @ \/ (hist[SessOf(t)].by = "Rcpt")]
    /\ UNCHANGED <<topic, smu, bmu, success, failure, calls, nOk, nErr>>

\* Mutant: the publisher's error is returned after success is incremented.
DataPubCountsFirst(t) ==
    /\ th[t].pc = "d_pub"
    /\ \E e \in {Nil, errPublish} :
         /\ th' = [th EXCEPT ![t].err = e,
                             ![t].sent = @ + 1,
                             ![t].pc = "d_lock"]
         /\ hist' = [hist EXCEPT ![SessOf(t)].pub = @ + 1,
                                 ![SessOf(t)].pubOk = IF e = Nil THEN @ + 1 ELSE @]
    /\ UNCHANGED <<topic, smu, bmu, success, failure, calls, nOk, nErr>>

\* Line 131: s.backend.sub(m); the publisher returns nil or an error.
DataPub(t) ==
    /\ th[t].pc = "d_pub"
    /\ \E e \in {Nil, errPublish} :
         /\ th' = [th EXCEPT ![t].err = e,
                             ![t].sent = @ + 1,
                             ![t].pc = IF e = Nil THEN "d_lock" ELSE "w_lock"]
         /\ hist' = [hist EXCEPT ![SessOf(t)].pub = @ + 1,
                                 ![SessOf(t)].pubOk = IF e = Nil THEN @ + 1 ELSE @]
    /\ UNCHANGED <<topic, smu, bmu, success, failure, calls, nOk, nErr>>

\* Lines 134-135: s.backend.mu.Lock(), and the load of s.backend.success++
DataLock(t) ==
    /\ th[t].pc = "d_lock"
    /\ BackendUnlocked
    /\ bmu' = t
    /\ th' = [th EXCEPT ![t].tmp = success, ![t].pc = "d_inc"]
    /\ UNCHANGED <<topic, smu, success, failure, hist, calls, nOk, nErr>>

\* Mutant: a published Data ends the transaction by clearing the topic.
DataIncClears(t) ==
    /\ th[t].pc = "d_inc"
    /\ success' = th[t].tmp + 1
    /\ bmu' = 0
    /\ topic' = [topic EXCEPT ![SessOf(t)] = << >>]
    /\ th' = [th EXCEPT ![t].tmp = 0, ![t].dS = @ + (success' - success),
                        ![t].pc = "w_lock"]
    /\ UNCHANGED <<smu, failure, hist, calls, nOk, nErr>>

\* Mutant: Data returns without s.backend.mu.Unlock().
DataIncKeepsLock(t) ==
    /\ th[t].pc = "d_inc"
    /\ success' = th[t].tmp + 1
    /\ th' = [th EXCEPT ![t].tmp = 0, ![t].dS = @ + (success' - success),
                        ![t].pc = "w_lock"]
    /\ UNCHANGED <<topic, smu, bmu, failure, hist, calls, nOk, nErr>>

\* Lines 135-137: the store of s.backend.success++, s.backend.mu.Unlock()
DataInc(t) ==
    /\ th[t].pc = "d_inc"
    /\ success' = th[t].tmp + 1
    /\ bmu' = 0
    /\ th' = [th EXCEPT ![t].tmp = 0, ![t].dS = @ + (success' - success),
                        ![t].pc = "w_lock"]
    /\ UNCHANGED <<topic, smu, failure, hist, calls, nOk, nErr>>

\* ----------------------------------------------------------- withFailCount

\* Mutant: a nil error is counted as a success.
WfcLockElseSuccess(t) ==
    /\ th[t].pc = "w_lock"
    /\ BackendUnlocked
    /\ bmu' = t
    /\ failure' = IF th[t].err # Nil THEN failure + 1 ELSE failure
    /\ success' = IF th[t].err = Nil THEN success + 1 ELSE success
    /\ th' = [th EXCEPT ![t].dF = @ + (failure' - failure),
                        ![t].ret = th[t].err,
                        ![t].pc = "w_unlock"]
    /\ UNCHANGED <<topic, smu, hist, calls, nOk, nErr>>

\* Mutant: failure is incremented whatever err is.
WfcLockCountsAll(t) ==
    /\ th[t].pc = "w_lock"
    /\ BackendUnlocked
    /\ bmu' = t
    /\ failure' = failure + 1
    /\ th' = [th EXCEPT ![t].dF = @ + (failure' - failure),
                        ![t].ret = th[t].err,
                        ![t].pc = "w_unlock"]
    /\ UNCHANGED <<topic, smu, success, hist, calls, nOk, nErr>>

\* Mutant: the error is counted and nil is returned.
WfcLockSwallows(t) ==
    /\ th[t].pc = "w_lock"
    /\ BackendUnlocked
    /\ bmu' = t
    /\ failure' = IF th[t].err # Nil THEN failure + 1 ELSE failure
    /\ th' = [th EXCEPT ![t].dF = @ + (failure' - failure),
                        ![t].ret = Nil,
                        ![t].pc = "w_unlock"]
    /\ UNCHANGED <<topic, smu, success, hist, calls, nOk, nErr>>

\* Lines 153-158: s.backend.mu.Lock(); if err != nil { s.backend.failure++ };
\* return err
WfcLock(t) ==
    /\ th[t].pc = "w_lock"
    /\ BackendUnlocked
    /\ bmu' = t
    /\ failure' = IF th[t].err # Nil THEN failure + 1 ELSE failure
    /\ th' = [th EXCEPT ![t].dF = @ + (failure' - failure),
                        ![t].ret = th[t].err,
                        ![t].pc = "w_unlock"]
    /\ UNCHANGED <<topic, smu, success, hist, calls, nOk, nErr>>

\* Line 154: the deferred s.backend.mu.Unlock(); the callback is back in the
\* engine.
WfcUnlock(t) ==
    /\ th[t].pc = "w_unlock"
    /\ bmu' = 0
    /\ th' = [th EXCEPT ![t] = Fresh]
    /\ nOk' = IF th[t].op = "Data" /\ th[t].ret = Nil THEN nOk + 1 ELSE nOk
    /\ nErr' = IF th[t].ret # Nil THEN nErr + 1 ELSE nErr
    /\ hist' = [hist EXCEPT ![SessOf(t)].failed = @ \/ th[t].ret # Nil]
    /\ UNCHANGED <<topic, smu, success, failure, calls>>

\* ------------------------------------------------------------------ Counts

CountsCall(t) ==
    /\ CanCall(t)
    /\ th' = [th EXCEPT ![t] = [Fresh EXCEPT !.op = "Counts", !.pc = "c_lock"]]
    /\ calls' = calls + 1
    /\ UNCHANGED <<topic, smu, bmu, success, failure, hist, nOk, nErr>>

\* Lines 48, 50: b.mu.Lock(); return b.success, b.failure
CountsLock(t) ==
    /\ th[t].pc = "c_lock"
    /\ BackendUnlocked
    /\ bmu' = t
    /\ th' = [th EXCEPT ![t].cnt = <<success, failure>>,
                        ![t].snap = IF InFlight THEN NoCounts ELSE <<nOk, nErr>>,
                        ![t].pc = "c_unlock"]
    /\ UNCHANGED <<topic, smu, success, failure, hist, calls, nOk, nErr>>

\* Line 49: the deferred b.mu.Unlock(); Counts is back in its caller.
CountsUnlock(t) ==
    /\ th[t].pc = "c_unlock"
    /\ bmu' = 0
    /\ th' = [th EXCEPT ![t] = Fresh]
    /\ UNCHANGED <<topic, smu, success, failure, hist, calls, nOk, nErr>>

\* ------------------------------------------------------------ specification

\* Recipients the engine hands to Rcpt, as mail.ParseAddressList reads them.
Recipients ==
    { [ok |-> TRUE, addrs |-> << <<"p", "-", "a", "@", "d", "o">> >>],
      [ok |-> TRUE, addrs |-> << <<"p", "-", "b", "@", "d", "o">> >>],
      [ok |-> TRUE, addrs |-> << <<"p", "-", "@", "d", "o">> >>] }

\* Messages the engine hands to Data, as mail.ReadMessage reads them.
PlainMail(subj, bdy) ==
    [read |-> TRUE, parse |-> TRUE, ctype |-> "text/plain", body |-> bdy,
     parts |-> << >>, subject |-> subj]

Mails ==
    { PlainMail(<<"h">>, <<"x", "y", "z">>),
      PlainMail(<<"=?x-unknown?q?a?=">>, <<"x">>),
      [PlainMail(<<"h">>, <<"x">>) EXCEPT !.ctype = "text/html"] }

Step(t, rcpts, mails) ==
    \/ AuthPlain(t)
    \/ Mail(t)
    \/ Logout(t)
    \/ Return(t)
    \/ RcptCall(t, rcpts)
    \/ RcptLock(t)
    \/ RcptWrite(t)
    \/ ResetCall(t)
    \/ ResetLock(t)
    \/ ResetWrite(t)
    \/ DataCall(t, mails)
    \/ DataTopic(t)
    \/ DataPub(t)
    \/ DataLock(t)
    \/ DataInc(t)
    \/ WfcLock(t)
    \/ WfcUnlock(t)
    \/ CountsCall(t)
    \/ CountsLock(t)
    \/ CountsUnlock(t)

Next == \E t \in Threads : Step(t, Recipients, Mails)

Spec == Init /\ [][Next]_vars

\* The steps of a callback that goroutine t has started. While a goroutine
\* can run the scheduler runs one, an unlocked mutex is handed to a goroutine
\* waiting for it, and the publisher returns.
Progress(t) ==
    \/ Return(t)
    \/ RcptLock(t)
    \/ RcptWrite(t)
    \/ ResetLock(t)
    \/ ResetWrite(t)
    \/ DataTopic(t)
    \/ DataPub(t)
    \/ DataLock(t)
    \/ DataInc(t)
    \/ WfcLock(t)
    \/ WfcUnlock(t)
    \/ CountsLock(t)
    \/ CountsUnlock(t)

\* The callbacks that take locks, and Logout, with one recipient that
\* resolves and one mail that is extracted; a Data call fails when the
\* publisher does.
FairRecipients == { [ok |-> TRUE, addrs |-> << <<"p", "-", "a", "@", "d", "o">> >>] }

FairMails == { PlainMail(<<"h">>, <<"x">>) }

NextFair ==
    \E t \in Threads :
      \/ Logout(t)
      \/ RcptCall(t, FairRecipients)
      \/ ResetCall(t)
      \/ DataCall(t, FairMails)
      \/ CountsCall(t)
      \/ Progress(t)

FairSpec == Init /\ [][NextFair]_vars /\ WF_vars(\E t \in Threads : Progress(t))

\* ------------------------------------------- the assembly of the message

MaxSubjectLen == 2
MaxBodyLen == 3

SeqsUpTo(S, n) == UNION {[1..k -> S] : k \in 0..n}

\* The words of a Subject header and the characters of a body.
SubjectWords ==
    {"h", " ", "=?utf-8?q??=", "=?utf-8?q?_?=", "=?utf-8?q?abc?=", "=?x-unknown?q?a?="}
BodyChars == {"x", " "}

\* Every text/plain mail with a subject of at most MaxSubjectLen words and a
\* body of at most MaxBodyLen characters.
SwapMails ==
    {PlainMail(subj, bdy) : subj \in SeqsUpTo(SubjectWords, MaxSubjectLen),
                            bdy \in SeqsUpTo(BodyChars, MaxBodyLen)}

\* One connection delivers such mails, one Data call after the other.
NextSwap ==
    \/ DataCall(1, SwapMails)
    \/ DataTopic(1)
    \/ DataPub(1)
    \/ DataLock(1)
    \/ DataInc(1)
    \/ WfcLock(1)
    \/ WfcUnlock(1)

SwapSpec == Init /\ [][NextSwap]_vars

\* ------------------------------------------ the extraction of multiparts

MaxParts == 3

\* The parts of a multipart body: text/plain parts, other parts, a nested
\* multipart, a part without a Content-Type header, and a text/plain part
\* that ends before its closing boundary.
Part(ct, bdy, rd) == [ctype |-> ct, body |-> bdy, read |-> rd]

Parts ==
    { Part("text/plain", <<"x">>, TRUE),
      Part("Text/Plain; charset=utf-8", <<"y">>, TRUE),
      Part("text/html", <<"z">>, TRUE),
      Part("multipart/mixed; boundary=b", <<"x">>, TRUE),
      Part("", <<"x">>, TRUE),
      Part("text/plain", <<"x">>, FALSE) }

MultipartMails ==
    {[read |-> TRUE, parse |-> TRUE, ctype |-> "multipart/mixed; boundary=b",
      body |-> << >>, parts |-> ps, subject |-> <<"h">>] :
        ps \in SeqsUpTo(Parts, MaxParts)}

\* One connection delivers multipart mails, one Data call after the other.
NextMultipart ==
    \/ DataCall(1, MultipartMails)
    \/ DataTopic(1)
    \/ DataPub(1)
    \/ DataLock(1)
    \/ DataInc(1)
    \/ WfcLock(1)
    \/ WfcUnlock(1)

MultipartSpec == Init /\ [][NextMultipart]_vars

\* ------------------------------------------ the resolution of recipients

\* A recipient as the engine passes it to Rcpt: a list of entries, each an
\* address, written with a display name ("N <addr>") or without one.
TopicPartChars == {"a", "!"}

RawAddrs ==
    {pre \o tp \o dom :
        pre \in {<< >>, SMTPServerAddrPrefix, <<"q", "-">>},
        tp \in SeqsUpTo(TopicPartChars, MaxTopicLen + 1),
        dom \in {<<"@">> \o SMTPServerDomain, <<"@", "d", "x">>, << >>}}

RawRecipients ==
    {<<[name |-> n, addr |-> a]>> : n \in BOOLEAN, a \in RawAddrs}
      \cup {<< >>,
            <<[name |-> FALSE, addr |-> <<"p", "-", "a", "@", "d", "o">>],
              [name |-> FALSE, addr |-> <<"p", "-", "a", "@", "d", "o">>]>>}

\* An addr-spec has a local part, one "@" and a domain.
IsAddrSpec(a) ==
    /\ Cardinality({i \in 1..Len(a) : a[i] = "@"}) = 1
    /\ a[1] # "@"
    /\ a[Len(a)] # "@"

\* Line 71: mail.ParseAddressList(to). An empty list or an entry that is not
\* an address is an error; the addresses come without their display names.
ParseAddressList(raw) ==
    IF raw = << >> \/ \E i \in 1..Len(raw) : ~IsAddrSpec(raw[i].addr)
    THEN [ok |-> FALSE, addrs |-> << >>, raw |-> raw]
    ELSE [ok |-> TRUE, addrs |-> [i \in 1..Len(raw) |-> raw[i].addr], raw |-> raw]

\* One connection names recipients, one Rcpt call after the other.
NextResolve ==
    \/ RcptCall(1, {ParseAddressList(raw) : raw \in RawRecipients})
    \/ RcptLock(1)
    \/ RcptWrite(1)
    \/ WfcLock(1)
    \/ WfcUnlock(1)

ResolveSpec == Init /\ [][NextResolve]_vars

\* ------------------------------------------------------------------ claims

\* A Rcpt or Data call of goroutine t has run to its return statement.
Returning(t) == th[t].op \in {"Rcpt", "Data"} /\ th[t].pc = "w_unlock"

\* C1: counter exactness under concurrency.  Once every Rcpt and Data call
\* has returned, success is the number of Data calls that returned nil and
\* failure the number of Rcpt and Data calls that returned an error; and
\* Counts, called then, returns exactly these two numbers.
C1_CounterExactness ==
    /\ ~InFlight => (success = nOk /\ failure = nErr)
    /\ \A t \in Threads :
         (th[t].pc = "c_unlock" /\ th[t].snap # NoCounts) => th[t].cnt = th[t].snap

\* Counts returns after a transaction that succeeded and one that failed.
C1_Witness ==
    \E t \in Threads :
      /\ th[t].pc = "c_unlock"
      /\ th[t].snap # NoCounts
      /\ th[t].cnt[1] >= 1
      /\ th[t].cnt[2] >= 1

\* Data's closure reaches the publisher with this message: the body is
\* extracted and the Subject header decoded.
Publishable(msg) ==
    /\ Extract(msg).err = Nil
    /\ Assemble(<< >>, Extract(msg).body, msg.subject).err = Nil

\* C2 as stated: every Data call that returns has handed exactly one message
\* to the publisher and made exactly one increment, to success or to failure.
C2_Original ==
    \A t \in Threads :
      (th[t].op = "Data" /\ th[t].pc = "w_unlock") =>
        /\ th[t].sent = 1
        /\ th[t].dS + th[t].dF = 1

\* C2, amended: every Data call that returns has made exactly one increment,
\* to success or to failure and never to both; it has handed one message to
\* the publisher when the body could be extracted and the subject decoded,
\* and none otherwise; success is incremented only after the hand-over.
C2_OneIncrement ==
    \A t \in Threads :
      /\ (th[t].op = "Data" /\ th[t].pc = "w_unlock") =>
           /\ \/ (th[t].dS = 1 /\ th[t].dF = 0)
              \/ (th[t].dS = 0 /\ th[t].dF = 1)
           /\ th[t].sent = IF Publishable(th[t].mail) THEN 1 ELSE 0
      /\ th[t].dS > 0 => th[t].sent = 1

\* A Data call returns an error without having reached the publisher.
C2_Witness ==
    \E t \in Threads :
      /\ th[t].op = "Data" /\ th[t].pc = "w_unlock"
      /\ th[t].sent = 0 /\ th[t].dF = 1 /\ th[t].dS = 0

\* The error a Data call returns when its closure does not reach the
\* publisher.
DataError(msg) ==
    IF Extract(msg).err # Nil THEN Extract(msg).err
    ELSE Assemble(<< >>, Extract(msg).body, msg.subject).err

\* C3: a Rcpt or Data call that ends in an error returns that error (the
\* resolver's, the extractor's, the decoder's or the publisher's) and
\* increments failure once; one that returns nil does not increment failure.
C3_ErrorCounted ==
    \A t \in Threads :
      Returning(t) =>
        /\ th[t].ret = th[t].err
        /\ th[t].op = "Rcpt" => th[t].ret = Resolve(th[t].to).err
        /\ (th[t].op = "Data" /\ ~Publishable(th[t].mail)) =>
             th[t].ret = DataError(th[t].mail)
        /\ (th[t].op = "Data" /\ Publishable(th[t].mail)) =>
             th[t].ret \in {Nil, errPublish}
        /\ th[t].ret # Nil => th[t].dF = 1
        /\ th[t].ret = Nil => th[t].dF = 0

\* A Rcpt call returns the resolver's error, counted.
C3_Witness ==
    \E t \in Threads :
      /\ Returning(t) /\ th[t].op = "Rcpt"
      /\ th[t].ret = errInvalidTopic /\ th[t].dF = 1 /\ failure >= 1

\* This step is a step of a call of callback name on goroutine t.
StepOf(t, name) ==
    /\ th'[t] # th[t]
    /\ th[t].op = name \/ th'[t].op = name

\* C4: while the last write of a session's topic is Reset's, the topic is
\* empty; a Data call that reads the topic after a Reset, with no Rcpt having
\* written it since, hands the publisher a message with the empty topic,
\* not with the topic Reset cleared.
C4_ResetClears ==
    /\ \A s \in Sessions : hist[s].by = "Reset" => topic[s] = << >>
    /\ \A t \in Threads :
         (th[t].op = "Data" /\ th[t].seen.by = "Reset" /\ th[t].m # << >>) =>
           th[t].m[1].topic = << >>

\* A Data call publishes with the empty topic after a Reset that cleared a
\* resolved one.
C4_Witness ==
    \E t \in Threads :
      /\ th[t].op = "Data" /\ th[t].sent = 1
      /\ th[t].seen.by = "Reset"
      /\ hist[SessOf(t)].by = "Reset"
      /\ hist[SessOf(t)].old # << >>
      /\ th[t].m[1].topic = << >>

\* C5 as stated: when a Data call returns the session's topic is empty, and
\* a Data call does not publish to a topic an earlier Data call has used.
C5_Original ==
    \A t \in Threads :
      /\ (th[t].op = "Data" /\ th[t].pc = "w_unlock") => topic[SessOf(t)] = << >>
      /\ (th[t].op = "Data" /\ th[t].sent = 1 /\ th[t].seen.by = "Rcpt"
            /\ th[t].seen.used) => th[t].m[1].topic # th[t].seen.val

\* C5, amended: no step of a Data call, succeeding or failing, changes the
\* session's topic (only Reset empties it), so a Data call that reads a
\* topic stored by Rcpt publishes to it, also when an earlier Data call has
\* published to it already.
C5_DataKeepsTopic ==
    [][\A t \in Threads :
         /\ StepOf(t, "Data") => topic' = topic
         /\ (th[t].op = "Data" /\ th[t].sent = 1 /\ th[t].seen.by = "Rcpt") =>
              th[t].m[1].topic = th[t].seen.val]_vars

\* A second Data call returns having published to the topic of the
\* transaction before it, and the topic is still set.
C5_Witness ==
    \E t \in Threads :
      /\ th[t].op = "Data" /\ th[t].pc = "w_unlock" /\ th[t].sent = 1
      /\ th[t].seen.by = "Rcpt" /\ th[t].seen.used
      /\ th[t].m[1].topic = th[t].seen.val
      /\ topic[SessOf(t)] = th[t].seen.val
      /\ topic[SessOf(t)] # << >>

\* C6 as stated: when a failed Rcpt call returns the session's topic is
\* empty.
C6_Original ==
    \A t \in Threads :
      (th[t].op = "Rcpt" /\ th[t].pc = "w_unlock" /\ th[t].ret # Nil) =>
        topic[SessOf(t)] = << >>

\* C6, amended: a Rcpt call that fails changes no topic, so the session keeps
\* the topic it had (empty, or the one of an earlier successful Rcpt); a Rcpt
\* call that succeeds sets its session's topic, and no other, to the
\* resolved value.
C6_RcptTopic ==
    [][\A t \in Threads :
         StepOf(t, "Rcpt") =>
           IF th[t].op = "Rcpt" /\ th[t].pc = "r_write"
           THEN /\ Resolve(th[t].to).err = Nil
                /\ topic' = [topic EXCEPT ![SessOf(t)] = Resolve(th[t].to).topic]
           ELSE topic' = topic]_vars

\* A failed Rcpt call returns in a session whose topic an earlier Rcpt set.
C6_Witness ==
    \E t \in Threads :
      /\ th[t].op = "Rcpt" /\ th[t].pc = "w_unlock" /\ th[t].ret # Nil
      /\ hist[SessOf(t)].by = "Rcpt"
      /\ topic[SessOf(t)] # << >>

\* C7 as stated: when Logout returns the session's topic is empty.
C7_Original ==
    \A t \in Threads :
      (th[t].op = "Logout" /\ th[t].pc = "n_ret") => topic[SessOf(t)] = << >>

\* C7, amended: Reset empties the session's topic; Logout returns nil and
\* leaves every topic as it was.
C7_LogoutKeepsTopic ==
    [][\A t \in Threads :
         /\ StepOf(t, "Logout") => (topic' = topic /\ th'[t].ret \in {Nil, "none"})
         /\ (th[t].op = "Reset" /\ th[t].pc = "rs_write" /\ th'[t] # th[t]) =>
              topic' = [topic EXCEPT ![SessOf(t)] = << >>]]_vars

\* Logout returns in a session whose topic is set.
C7_Witness ==
    \E t \in Threads :
      /\ th[t].op = "Logout" /\ th[t].pc = "n_ret" /\ th[t].ret = Nil
      /\ topic[SessOf(t)] # << >>

\* C8 as stated: every message handed to the publisher has a non-empty
\* topic that matches topicRegex.
C8_Original ==
    \A t \in Threads :
      th[t].sent >= 1 =>
        (th[t].m[1].topic # << >> /\ TopicRegexMatch(th[t].m[1].topic))

\* C8, amended: a message handed to the publisher by a Data call that read
\* the topic after a successful Rcpt, with no Reset since and no write in
\* progress, has the non-empty topic that Rcpt validated; a Data call made
\* with no topic set (before any successful Rcpt, or after Reset) is not
\* rejected and hands the publisher a message with the empty topic.
C8_ValidatedAfterRcpt ==
    \A t \in Threads :
      th[t].sent >= 1 =>
        /\ th[t].seen.by = "Rcpt" =>
             /\ th[t].m[1].topic # << >>
             /\ TopicRegexMatch(th[t].m[1].topic)
             /\ th[t].m[1].topic = th[t].seen.val
        /\ th[t].seen.by \in {"Login", "Reset"} => th[t].m[1].topic = << >>

\* A Data call made before any Rcpt has handed over a message with the
\* empty topic, and another one a message with a validated topic.
C8_Witness ==
    /\ \E t \in Threads :
         /\ th[t].sent = 1 /\ th[t].seen.by = "Login"
         /\ th[t].m[1].topic = << >>
    /\ \E t \in Threads :
         /\ th[t].sent = 1 /\ th[t].seen.by = "Rcpt"
         /\ TopicRegexMatch(th[t].m[1].topic)

\* C9: a Data call that reads the topic t stored by a successful Rcpt, and
\* whose body extraction and subject decoding succeed, hands exactly one
\* message with topic t to the publisher, and when the publisher accepts it
\* the call returns nil having incremented success once and failure not at
\* all; this holds also when earlier Rcpt or Data calls of the session have
\* failed and no Reset was called.
C9_UsableAfterFailure ==
    \A t \in Threads :
      (th[t].op = "Data" /\ th[t].pc = "w_unlock" /\ th[t].seen.by = "Rcpt"
         /\ Publishable(th[t].mail)) =>
        /\ th[t].sent = 1
        /\ th[t].m[1].topic = th[t].seen.val
        /\ th[t].ret \in {Nil, errPublish}
        /\ th[t].ret = Nil => (th[t].dS = 1 /\ th[t].dF = 0)

\* After a failed call of the session, and with no Reset, a Rcpt stores a
\* topic and the Data call that follows publishes to it and returns nil.
C9_Witness ==
    \E t \in Threads :
      /\ th[t].op = "Data" /\ th[t].pc = "w_unlock" /\ th[t].ret = Nil
      /\ th[t].seen.by = "Rcpt"
      /\ hist[SessOf(t)].by = "Rcpt"
      /\ hist[SessOf(t)].afterFail
      /\ th[t].sent = 1 /\ th[t].dS = 1
      /\ th[t].m[1].topic = hist[SessOf(t)].val

\* The subject of a mail as Data decodes it: the trimmed Subject header,
\* decoded when it is not empty.
DecodedSubject(msg) ==
    IF TrimSpace(msg.subject) = << >> THEN << >>
    ELSE DecodeHeader(TrimSpace(msg.subject)).text

\* C10: swap law. With s the decoded subject and b the trimmed, truncated
\* body, the message Data has assembled has title "" and message s when s is
\* not empty and b is empty, and title s and message b otherwise; no
\* assembled message has a non-empty title and an empty message.
C10_SwapLaw ==
    \A t \in Threads :
      (th[t].op = "Data" /\ th[t].m # << >> /\ Publishable(th[t].mail)) =>
        LET s == DecodedSubject(th[t].mail)
            b == TrimAndTruncate(Extract(th[t].mail).body)
            msg == th[t].m[1]
        IN  /\ IF s # << >> /\ b = << >>
               THEN msg.title = << >> /\ msg.message = s
               ELSE msg.title = s /\ msg.message = b
            /\ ~(msg.title # << >> /\ msg.message = << >>)

\* A mail with a subject and a body of white space only is published with
\* the subject as its message and no title.
C10_Witness ==
    \E t \in Threads :
      /\ th[t].op = "Data" /\ th[t].sent = 1
      /\ th[t].mail.body # << >>
      /\ DecodedSubject(th[t].mail) # << >>
      /\ th[t].m[1].title = << >>
      /\ th[t].m[1].message = DecodedSubject(th[t].mail)

\* C11 as stated, for the trimmed body: when it is longer than MessageLimit
\* the assembled message is its first MessageLimit characters, and otherwise
\* the assembled message is the trimmed body.
C11_Original ==
    \A t \in Threads :
      (th[t].op = "Data" /\ th[t].m # << >> /\ Publishable(th[t].mail)) =>
        LET tb == TrimSpace(Extract(th[t].mail).body)
            msg == th[t].m[1]
        IN  IF Len(tb) > MessageLimit
            THEN Len(msg.message) = MessageLimit /\ msg.message = SubSeq(tb, 1, MessageLimit)
            ELSE msg.message = tb

\* C11, amended: when the trimmed body is longer than MessageLimit the
\* assembled message is its first MessageLimit characters (length exactly
\* MessageLimit); when it is at or under the limit the assembled message is
\* the trimmed body, except that for an empty trimmed body and a non-empty
\* decoded subject the message is the subject.
C11_Truncation ==
    \A t \in Threads :
      (th[t].op = "Data" /\ th[t].m # << >> /\ Publishable(th[t].mail)) =>
        LET tb == TrimSpace(Extract(th[t].mail).body)
            s == DecodedSubject(th[t].mail)
            msg == th[t].m[1]
        IN  IF Len(tb) > MessageLimit
            THEN Len(msg.message) = MessageLimit /\ msg.message = SubSeq(tb, 1, MessageLimit)
            ELSE IF tb = << >> /\ s # << >> THEN msg.message = s
            ELSE msg.message = tb

\* A body that is longer than the limit after trimming is published cut to
\* the limit.
C11_Witness ==
    \E t \in Threads :
      /\ th[t].op = "Data" /\ th[t].sent = 1
      /\ Len(TrimSpace(th[t].mail.body)) > MessageLimit
      /\ Len(th[t].m[1].message) = MessageLimit

\* The topics tp matching the topic pattern for which the one address of
\* the recipient raw is <prefix> tp @ <domain>.
NamedTopics(raw) ==
    IF Len(raw) # 1 THEN {}
    ELSE {tp \in SeqsUpTo(TopicChars, MaxTopicLen) :
            /\ TopicRegexMatch(tp)
            /\ raw[1].addr = SMTPServerAddrPrefix \o tp \o <<"@">> \o SMTPServerDomain}

ResolverErrors ==
    {errParseAddress, errTooManyRecipients, errInvalidDomain, errInvalidAddress,
     errInvalidTopic}

\* C12 as stated: a Rcpt call returns nil with the topic stored when the
\* recipient is the string <prefix><topic>@<domain> with a topic matching
\* the pattern, and one of the five resolver errors for every other
\* recipient.
C12_Original ==
    \A t \in Threads :
      (th[t].op = "Rcpt" /\ th[t].pc = "w_unlock") =>
        LET raw == th[t].to.raw IN
        IF NamedTopics(raw) # {} /\ ~raw[1].name
        THEN th[t].ret = Nil /\ topic[SessOf(t)] \in NamedTopics(raw)
        ELSE th[t].ret \in ResolverErrors

\* C12, amended: for every recipient that parses as an address list of
\* exactly one address <prefix><topic>@<domain> with a topic matching the
\* pattern, written bare or with a display name, Rcpt returns nil and stores
\* exactly that topic; for every other recipient Rcpt returns one of the
\* five resolver errors and does not reach the store of the topic.
C12_Resolver ==
    \A t \in Threads :
      th[t].op = "Rcpt" =>
        LET raw == th[t].to.raw IN
        /\ th[t].pc \in {"r_lock", "r_write"} => NamedTopics(raw) # {}
        /\ th[t].pc = "w_unlock" =>
             IF NamedTopics(raw) # {}
             THEN /\ th[t].ret = Nil
                  /\ topic[SessOf(t)] \in NamedTopics(raw)
                  /\ hist[SessOf(t)].by = "Rcpt"
             ELSE th[t].ret \in ResolverErrors

\* A recipient written with a display name is accepted and its topic stored.
C12_Witness ==
    \E t \in Threads :
      /\ th[t].op = "Rcpt" /\ th[t].pc = "w_unlock" /\ th[t].ret = Nil
      /\ Len(th[t].to.raw) = 1 /\ th[t].to.raw[1].name
      /\ topic[SessOf(t)] \in NamedTopics(th[t].to.raw)

\* The positions of the text/plain parts, and of the parts whose
\* Content-Type does not parse.
PlainParts(ps) ==
    {i \in 1..Len(ps) : ps[i].ctype \in {"text/plain", "Text/Plain; charset=utf-8"}}

UntypedParts(ps) == {i \in 1..Len(ps) : ps[i].ctype = ""}

FirstOf(S) == CHOOSE i \in S : \A j \in S : i <= j

\* The Data call of goroutine t has extracted a body.
Extracted(t) == th[t].pc = "d_topic" \/ th[t].m # << >>

\* C13 as stated, for parts that can all be read: a multipart message with a
\* text/plain part is extracted to the body of its first text/plain part,
\* the parts before it being skipped; one without a text/plain part fails
\* and nothing is published.
C13_Original ==
    \A t \in Threads :
      (th[t].op = "Data" /\ \A i \in 1..Len(th[t].mail.parts) : th[t].mail.parts[i].read) =>
        LET ps == th[t].mail.parts IN
        IF PlainParts(ps) = {}
        THEN ~Extracted(t) /\ th[t].sent = 0
        ELSE /\ Extracted(t)
             /\ th[t].m # << >> => th[t].m[1].message = ps[FirstOf(PlainParts(ps))].body

\* C13, amended: extraction scans the parts in order and skips every part
\* whose Content-Type parses to a media type other than text/plain; it
\* returns exactly the body of the first text/plain part when that part can
\* be read to its end and no part before it has a Content-Type that does not
\* parse; it fails with the parse error at such a part, with the read error
\* at an unreadable first text/plain part, and with the end-of-parts error
\* when no part is text/plain; when it fails Data publishes nothing.
C13_Multipart ==
    \A t \in Threads :
      th[t].op = "Data" =>
        LET ps == th[t].mail.parts
            k == FirstOf(PlainParts(ps))
            failed(e) == /\ ~Extracted(t) /\ th[t].sent = 0 /\ th[t].err = e
                         /\ th[t].pc = "w_unlock" => th[t].ret = e
        IN  IF PlainParts(ps) = {}
            THEN IF UntypedParts(ps) # {} THEN failed(errMediaType) ELSE failed(errEOF)
            ELSE IF \E i \in UntypedParts(ps) : i < k THEN failed(errMediaType)
            ELSE IF ~ps[k].read THEN failed(errRead)
            ELSE /\ Extracted(t)
                 /\ th[t].m # << >> => th[t].m[1].message = ps[k].body

\* A mail whose first part is not text/plain and whose second and third
\* parts are text/plain with different bodies is published with the body of
\* the second part.
C13_Witness ==
    \E t \in Threads :
      /\ th[t].op = "Data" /\ th[t].sent = 1
      /\ Len(th[t].mail.parts) = 3
      /\ PlainParts(th[t].mail.parts) = {2, 3}
      /\ th[t].mail.parts[2].body # th[t].mail.parts[3].body
      /\ th[t].m[1].message = th[t].mail.parts[2].body

\* The locks goroutine t holds.
HoldsSession(t) == \E s \in Sessions : smu[s] = t
HoldsBackend(t) == bmu = t

\* No goroutine holds a session lock and the backend lock together, waits
\* for a lock it holds, or holds a lock outside the callback that took it.
LockDiscipline ==
    \A t \in Threads :
      /\ ~(HoldsSession(t) /\ HoldsBackend(t))
      /\ th[t].pc \in {"r_lock", "rs_lock"} => ~HoldsSession(t)
      /\ th[t].pc \in {"d_lock", "w_lock", "c_lock"} => ~HoldsBackend(t)
      /\ th[t].pc \in {"idle", "n_ret"} => (~HoldsSession(t) /\ ~HoldsBackend(t))

\* C14: under fair scheduling and a publisher that returns, every callback
\* that has started returns (the engine starts finitely many, and from some
\* moment on every goroutine is back in the engine for good); when a callback
\* has returned it holds no lock, and no callback holds the session lock and
\* the backend lock together or waits for a lock it holds itself.
C14_NoBlocking ==
    /\ []LockDiscipline
    /\ <>[](\A t \in Threads : th[t].pc = "idle")

\* A callback waits for the backend lock while another goroutine holds it
\* and a Reset holds a session lock.
C14_Witness ==
    \E t, u, v \in Threads :
      /\ t # u /\ th[t].pc \in {"d_lock", "w_lock", "c_lock"} /\ bmu = u
      /\ HoldsSession(v) /\ th[v].op = "Reset"

\* C15: a goroutine at the write of a session's topic, in Rcpt or in Reset,
\* holds that session's lock; at most one goroutine is at a write of the
\* same session's topic; and a topic changes only in such a step, and only
\* the topic of the writer's session.
C15_WritesUnderLock ==
    [][/\ \A t \in Threads :
            th[t].pc \in {"r_write", "rs_write"} => smu[SessOf(t)] = t
       /\ \A s \in Sessions : Cardinality(Writers(s)) <= 1
       /\ topic' # topic =>
            \E t \in Threads :
              /\ th[t].pc \in {"r_write", "rs_write"}
              /\ th'[t] # th[t]
              /\ smu[SessOf(t)] = t
              /\ \A s \in Sessions \ {SessOf(t)} : topic'[s] = topic[s]]_vars

\* Rcpt is at its write of the topic, holding the session's lock, while a
\* Reset of the same session waits for the lock.
C15_Witness ==
    \E t, u \in Threads :
      /\ t # u /\ SessOf(t) = SessOf(u)
      /\ th[t].pc = "r_write" /\ smu[SessOf(t)] = t
      /\ th[u].pc = "rs_lock"

\* C16 as stated: a Data call that reads the topic stored by the last
\* successful Rcpt has, when it returns, handed exactly one message to the
\* publisher, with that topic.
C16_Original ==
    \A t \in Threads :
      (th[t].op = "Data" /\ th[t].pc = "w_unlock" /\ th[t].seen.by = "Rcpt") =>
        (th[t].sent = 1 /\ th[t].m[1].topic = th[t].seen.val)

\* C16, amended: a Data call whose body extraction and subject decoding
\* succeed, after several successful Rcpt calls, hands exactly one message
\* to the publisher, with the topic resolved by the last successful Rcpt
\* since the last Reset; a Data call that fails before the publisher hands
\* over none; a failed Rcpt changes neither the topic nor what the last
\* successful Rcpt was.
C16_LastRcptWins ==
    [][\A t \in Threads :
         /\ (th[t].op = "Data" /\ th[t].seen.by = "Rcpt" /\ th[t].pc = "w_unlock") =>
              IF Publishable(th[t].mail)
              THEN th[t].sent = 1 /\ th[t].m[1].topic = th[t].seen.val
              ELSE th[t].sent = 0
         /\ th[t].sent <= 1
         /\ (StepOf(t, "Rcpt") /\ th'[t].err # Nil) =>
              (topic' = topic /\ hist'[SessOf(t)].val = hist[SessOf(t)].val
                 /\ hist'[SessOf(t)].by = hist[SessOf(t)].by)]_vars

\* After two successful Rcpt calls with different topics, Data has published
\* one message to the topic of the second.
C16_Witness ==
    \E t \in Threads :
      /\ th[t].op = "Data" /\ th[t].sent = 1 /\ th[t].seen.by = "Rcpt"
      /\ hist[SessOf(t)].by = "Rcpt"
      /\ hist[SessOf(t)].old # << >>
      /\ hist[SessOf(t)].old # hist[SessOf(t)].val
      /\ th[t].m[1].topic = hist[SessOf(t)].val

\* C17 as stated: there is no state in which Data is at its read of the
\* topic without holding the session's lock while another callback of the
\* session is at a write of the topic.
C17_Original ==
    \A t \in Threads :
      (th[t].op = "Data" /\ th[t].pc = "d_topic" /\ smu[SessOf(t)] # t) =>
        Writers(SessOf(t)) = {}

\* The sum of f over the sessions 1..n.
RECURSIVE SumTo(_, _)
SumTo(f, n) == IF n = 0 THEN 0 ELSE f[n] + SumTo(f, n - 1)

\* The publisher calls that have returned, and those that returned nil.
PubCalls == SumTo([s \in Sessions |-> hist[s].pub], NumSessions)
PubNil == SumTo([s \in Sessions |-> hist[s].pubOk], NumSessions)

\* C18: a Data call invokes the publisher at most once, and only with the
\* body extracted and the subject decoded; it increments success only after
\* the publisher has returned nil. So success <= publisher calls that
\* returned nil <= publisher calls, and success equals the former when no
\* Data call is in progress.
C18_PublishThenCount ==
    /\ \A t \in Threads :
         /\ th[t].sent <= 1
         /\ th[t].sent = 1 => (th[t].op = "Data" /\ Publishable(th[t].mail))
         /\ th[t].pc = "d_inc" \/ th[t].dS > 0 => (th[t].sent = 1 /\ th[t].err = Nil)
    /\ success <= PubNil
    /\ PubNil <= PubCalls
    /\ (\A t \in Threads : th[t].op # "Data") => success = PubNil

\* All Data calls have returned; of two publisher calls one returned nil and
\* one an error.
C18_Witness ==
    /\ \A t \in Threads : th[t].op # "Data"
    /\ PubCalls = 2
    /\ PubNil = 1
    /\ success = 1

\* The title/body swap applies to the mail: the trimmed body is empty and
\* the decoded subject is not.
Swapped(msg) ==
    TrimAndTruncate(Extract(msg).body) = << >> /\ DecodedSubject(msg) # << >>

\* C19 as stated: the message of every OutboundMessage handed to the
\* publisher has at most MessageLimit characters.
C19_Original ==
    \A t \in Threads :
      th[t].sent >= 1 => Len(th[t].m[1].message) <= MessageLimit

\* C19, amended: the message handed to the publisher has at most
\* MessageLimit characters when the title/body swap has not been applied;
\* when it has, the message is the whole decoded subject, which is not cut
\* to the limit.
C19_LengthCap ==
    \A t \in Threads :
      th[t].sent >= 1 =>
        IF Swapped(th[t].mail)
        THEN th[t].m[1].message = DecodedSubject(th[t].mail)
        ELSE Len(th[t].m[1].message) <= MessageLimit

\* A mail with an empty body and a subject longer than the limit is
\* published with the whole subject as its message.
C19_Witness ==
    \E t \in Threads :
      /\ th[t].sent = 1
      /\ Swapped(th[t].mail)
      /\ Len(th[t].m[1].message) > MessageLimit

\* C20: frame conditions. Every step of Mail and AuthPlain leaves all topics
\* and both counters unchanged, and they return nil; every step of Reset and
\* of Logout leaves both counters unchanged; every step of a Rcpt whose
\* recipient resolves leaves both counters unchanged; and no step of a
\* callback changes the topic of a session other than its own.
C20_Frame ==
    [][\A t \in Threads :
         /\ (StepOf(t, "Mail") \/ StepOf(t, "AuthPlain")) =>
              /\ topic' = topic /\ success' = success /\ failure' = failure
              /\ th'[t].pc = "n_ret" => th'[t].ret = Nil
         /\ (StepOf(t, "Reset") \/ StepOf(t, "Logout")) =>
              (success' = success /\ failure' = failure)
         /\ (StepOf(t, "Rcpt") /\ th[t].op = "Rcpt" /\ Resolve(th[t].to).err = Nil) =>
              (success' = success /\ failure' = failure)
         /\ th'[t] # th[t] =>
              \A s \in Sessions \ {SessOf(t)} : topic'[s] = topic[s]]_vars

\* Mail returns nil in a session with a topic while another session has a
\* topic too.
C20_Witness ==
    \E t \in Threads :
      /\ th[t].op = "Mail" /\ th[t].pc = "n_ret" /\ th[t].ret = Nil
      /\ topic[SessOf(t)] # << >>
      /\ \E s \in Sessions \ {SessOf(t)} : topic[s] # << >>

====
